---- MODULE Spec2Model ----
(***************************************************************************)
(* The convex-volume tool of MQ2Nav's mesh generator                       *)
(* (src/meshgen/ConvexVolumeTool.cpp): the gift-wrap hull of the picked    *)
(* points, the crossing-number hit test, and the create / select / edit /  *)
(* delete session of ConvexVolumeTool and ConvexVolumeToolState.           *)
(*                                                                         *)
(* A glm::vec3 is a triple <<x, y, z>> (p[0], p[1], p[2] of the source);   *)
(* the x/z plane is the horizontal plane.  Coordinates are integers: every *)
(* float expression of the source that the model evaluates is exact on     *)
(* them (sums, products and comparisons of small integers; the one         *)
(* division, in pointInPoly, is compared after multiplying out).           *)
(* std::vector indices are 0-based as in the source; At(s, i) reads them.  *)
(***************************************************************************)
EXTENDS Integers, Sequences, FiniteSets, TLC

VARIABLES
    \* ConvexVolumeToolState
    m_pts,              \* std::vector<glm::vec3> m_pts
    m_hull,             \* std::vector<uint32_t> m_hull
    m_currentVolumeId,  \* uint32_t, 0 = no volume selected
    m_modified,         \* dirty flag of the edit panel
    m_editVolume,       \* ConvexVolume copy being edited
    m_name,             \* name typed for a new volume
    m_areaType,
    m_boxHeight,
    m_boxDescent,
    m_polyOffset,
    \* ConvexVolumeTool
    m_editing,          \* create mode
    \* NavMesh (the registry) and NavMeshTool
    volumes,            \* the convex volumes, in iteration order
    nextVolumeId,       \* the id AddConvexVolume hands out next
    rebuilt,            \* tiles passed to RebuildTiles by the last handler
    lastOp,             \* the handler that ran last, and the id it acted on
    hung,               \* a handler entered a loop it never leaves
    \* one run of convexhull, statement by statement
    h_pts, h_hull, h_out, h_pc,
    \* one evaluation of the hit test of handleVolumeClick
    q_vol, q_p, q_hit

sessVars == <<m_pts, m_hull, m_currentVolumeId, m_modified, m_editVolume,
              m_name, m_areaType, m_boxHeight, m_boxDescent, m_polyOffset,
              m_editing, volumes, nextVolumeId, rebuilt, lastOp, hung>>
hullVars == <<h_pts, h_hull, h_out, h_pc>>
hitVars  == <<q_vol, q_p, q_hit>>
vars     == <<sessVars, hullVars, hitVars>>

----------------------------------------------------------------------------
(* Helpers over vectors.                                                   *)

At(s, i) == s[i + 1]

Range(s) == {s[i] : i \in 1..Len(s)}

SetMin(S) == CHOOSE m \in S : \A x \in S : m <= x

SetMax(S) == CHOOSE m \in S : \A x \in S : m >= x

\* All sequences over S of length lo..hi.
SeqsOf(S, lo, hi) == UNION {[1..n -> S] : n \in lo..hi}

----------------------------------------------------------------------------
(* common/Utilities.h is not among the sources; these three follow the     *)
(* specification's section 4.1 (the start point is the smallest in x, ties *)
(* broken by z; a point counts only when STRICTLY left of the edge) and    *)
(* 4.4 (a fixed tolerance around the last point).                          *)

\* 'a' is more lower-left than 'b'.
cmppt(a, b) ==
    IF a[1] < b[1] THEN TRUE
    ELSE IF a[1] > b[1] THEN FALSE
    ELSE a[3] < b[3]

\* 'c' is strictly left of the line 'a'-'b' in the x/z plane.
left(a, b, c) ==
    (b[1] - a[1]) * (c[3] - a[3]) - (b[3] - a[3]) * (c[1] - a[1]) < 0

distSqr(a, b) ==
    (a[1] - b[1]) * (a[1] - b[1]) + (a[2] - b[2]) * (a[2] - b[2])
        + (a[3] - b[3]) * (a[3] - b[3])

----------------------------------------------------------------------------
(* convexhull, ConvexVolumeTool.cpp:27-46.                                 *)

\* Lines 30-33: the lower-leftmost point; the first of equals wins.
RECURSIVE lowerLeftmostFrom(_, _, _)
lowerLeftmostFrom(pts, i, hull) ==
    IF i >= Len(pts) THEN hull
    ELSE lowerLeftmostFrom(pts, i + 1,
                           IF cmppt(At(pts, i), At(pts, hull)) THEN i ELSE hull)

lowerLeftmost(pts) == lowerLeftmostFrom(pts, 1, 0)

\* Lines 40-43: the inner loop, endpt starting at 0 and j running from 1.
RECURSIVE nextEndptFrom(_, _, _, _)
nextEndptFrom(pts, hull, j, endpt) ==
    IF j >= Len(pts) THEN endpt
    ELSE nextEndptFrom(pts, hull, j + 1,
                       IF hull = endpt \/ left(At(pts, hull), At(pts, endpt), At(pts, j))
                       THEN j ELSE endpt)

nextEndpt(pts, hull) == nextEndptFrom(pts, hull, 1, 0)

\* Lines 37-45: the do-while.  The body is a function of 'hull' alone, so once
\* the vertex about to be pushed is one already pushed after out[0], the loop
\* repeats that cycle and never meets out[0] again: halts is FALSE, and 'out'
\* is what had been pushed when the cycle closed.
RECURSIVE giftWrap(_, _, _)
giftWrap(pts, hull, out) ==
    LET pushed == Append(out, hull)
        endpt  == nextEndpt(pts, hull)
    IN  IF endpt = pushed[1] THEN [halts |-> TRUE, out |-> pushed]
        ELSE IF endpt \in Range(pushed) THEN [halts |-> FALSE, out |-> pushed]
        ELSE giftWrap(pts, endpt, pushed)

convexhull(pts) == giftWrap(pts, lowerLeftmost(pts), <<>>)

----------------------------------------------------------------------------
(* pointInPoly, ConvexVolumeTool.cpp:48-64, and the containment test of    *)
(* handleVolumeClick, line 484.                                            *)

\* Lines 57-58 for the edge from vj to vi.  The first conjunct makes
\* vj[2] - vi[2] non-zero; the quotient is compared after multiplying both
\* sides by it, turning the comparison round when it is negative.
crosses(vi, vj, p) ==
    /\ (vi[3] > p[3]) # (vj[3] > p[3])
    /\ LET dz  == vj[3] - vi[3]
           num == (vj[1] - vi[1]) * (p[3] - vi[3])
           lhs == (p[1] - vi[1]) * dz
       IN  IF dz > 0 THEN lhs < num ELSE lhs > num

\* Lines 50-63: i runs over the vertices, j is the one before i (the last
\* one for i = 0); c is toggled at every crossing.
RECURSIVE pointInPolyFrom(_, _, _, _, _)
pointInPolyFrom(verts, p, i, j, c) ==
    IF i >= Len(verts) THEN c
    ELSE pointInPolyFrom(verts, p, i + 1, i,
                         IF crosses(At(verts, i), At(verts, j), p) THEN ~c ELSE c)

\* The same loop with j starting at i = 0's own vertex: the closing edge,
\* from the last vertex back to the first, is never tested.
pointInPolyOpen(verts, p) == pointInPolyFrom(verts, p, 1, 0, FALSE)

pointInPoly(verts, p) == pointInPolyFrom(verts, p, 0, Len(verts) - 1, FALSE)

\* Line 484: inside the footprint and within the height range.
volumeContains(vol, p) ==
    pointInPoly(vol.verts, p) /\ p[2] >= vol.hmin /\ p[2] <= vol.hmax

----------------------------------------------------------------------------
(* Bounds and inputs of the model.  A profile names what the user may do   *)
(* in a run: where clicks can land, what can be typed and set, and where   *)
(* the model stops following the run.                                      *)

\* Longest picked-point buffer followed in the whole session.
MaxPts == 3

\* Longest picked-point buffer followed in the creation flow.
MaxPtsCreate == 4

\* Largest id the registry hands out before the model stops committing.
MaxVolumeId == 1

\* The whole session: clicks land on three corners of a square at height 0
\* or on a lower point in line with two of them.  Sliders as in handleMenu,
\* lines 236-238 (height in [0.1, 100], descent in [-100, 100], offset in
\* [0, 10]); typed values as in lines 299-308.
Small ==
    [pts         |-> {<<0, 0, 0>>, <<10, 0, 0>>, <<10, 0, 10>>, <<20, -2, 0>>},
     maxPts      |-> MaxPts,
     maxId       |-> MaxVolumeId,
     names       |-> {""},
     areas       |-> {0},
     heights     |-> {5},
     descents    |-> {0, 1},
     offsets     |-> {0, 1},
     editNames   |-> {""},
     editAreas   |-> {0},
     editHeights |-> {6}]

\* The creation flow: clicks land on the four corners of the square; two
\* shape heights.
Square ==
    [pts         |-> {<<0, 0, 0>>, <<10, 0, 0>>, <<10, 0, 10>>, <<0, 0, 10>>},
     maxPts      |-> MaxPtsCreate,
     maxId       |-> MaxVolumeId,
     names       |-> {""},
     areas       |-> {0},
     heights     |-> {1, 5},
     descents    |-> {0, 1},
     offsets     |-> {0, 1},
     editNames   |-> {""},
     editAreas   |-> {0},
     editHeights |-> {6}]

\* The edit flow: a name and an area type can be typed and picked in the
\* edit panel (lines 299-305), and either height set (lines 307-308).
Edit ==
    [pts         |-> {<<0, 0, 0>>},
     maxPts      |-> MaxPts,
     maxId       |-> MaxVolumeId,
     names       |-> {""},
     areas       |-> {0},
     heights     |-> {5},
     descents    |-> {0},
     offsets     |-> {0},
     editNames   |-> {"", "pit"},
     editAreas   |-> {0, 1},
     editHeights |-> {6}]

----------------------------------------------------------------------------
(* The collaborators: NavMesh as the registry of volumes, NavMeshTool's    *)
(* RebuildTiles, Recast's rcOffsetPoly.  Their code is not among the       *)
(* sources; they follow sections 3, 4.2 and 6 of the specification.        *)

\* ConvexVolume{}: the value-initialised volume.
EmptyVolume ==
    [id |-> 0, name |-> "", verts |-> <<>>, areaType |-> 0, hmin |-> 0, hmax |-> 0]

VolumeIds(vs) == {vs[i].id : i \in 1..Len(vs)}

\* Registry.GetById: the stored volume with this id (callers test VolumeIds first).
GetConvexVolumeById(vs, id) ==
    vs[CHOOSE i \in 1..Len(vs) : vs[i].id = id]

\* Registry.Add: appended at the end of the iteration order under a fresh id.
AddConvexVolume(vs, id, verts, name, hmin, hmax, areaType) ==
    Append(vs, [id |-> id, name |-> name, verts |-> verts,
                areaType |-> areaType, hmin |-> hmin, hmax |-> hmax])

\* Registry.DeleteById: no-op if the id is not found.
DeleteConvexVolumeById(vs, id) == SelectSeq(vs, LAMBDA v : v.id # id)

\* Side of a square tile of the mesh.
TileSize == 10

\* Registry.TilesIntersecting: the tiles the footprint's bounding box
\* overlaps; none for an id the registry does not hold.
GetTilesIntersectingConvexVolume(vs, id) ==
    IF id \notin VolumeIds(vs) THEN {}
    ELSE LET verts == GetConvexVolumeById(vs, id).verts
             xs == {verts[i][1] : i \in 1..Len(verts)}
             zs == {verts[i][3] : i \in 1..Len(verts)}
         IN  IF xs = {} THEN {}
             ELSE (SetMin(xs) \div TileSize .. SetMax(xs) \div TileSize)
                    \X (SetMin(zs) \div TileSize .. SetMax(zs) \div TileSize)

Sgn(n) == IF n > 0 THEN 1 ELSE IF n < 0 THEN -1 ELSE 0

\* PolygonOffsetter on success: every vertex pushed outward by the distance
\* along both axes, away from the middle of the footprint (for a square, its
\* mitered offset); same vertex count, which is within the 2n+1 allowed.
offsetPolygon(verts, d) ==
    LET xs == {verts[i][1] : i \in 1..Len(verts)}
        zs == {verts[i][3] : i \in 1..Len(verts)}
        mx2 == SetMin(xs) + SetMax(xs)
        mz2 == SetMin(zs) + SetMax(zs)
    IN  [i \in 1..Len(verts) |->
            <<verts[i][1] + d * Sgn(2 * verts[i][1] - mx2),
              verts[i][2],
              verts[i][3] + d * Sgn(2 * verts[i][3] - mz2)>>]

\* What rcOffsetPoly can hand back: the offset polygon, or no vertex at all
\* (the failure of section 4.2).
rcOffsetPoly(verts, d) == {offsetPolygon(verts, d), <<>>}

----------------------------------------------------------------------------
(* ConvexVolumeToolState and ConvexVolumeTool.                             *)

\* What every handler leaves behind for the observer: which handler ran, the
\* volume id it acted on (0: none), what rcOffsetPoly answered if it was
\* called, and the tiles it passed to RebuildTiles (none: no call, lines 218,
\* 277, 321, 347).
Ran(op, id, offset, tiles) ==
    /\ lastOp' = [op |-> op, id |-> id, offset |-> offset]
    /\ rebuilt' = tiles

\* A reset that forgets lines 387-388 and keeps the picked points.
resetKeepsPoints ==
    /\ UNCHANGED <<m_pts, m_hull>>
    /\ m_currentVolumeId' = 0
    /\ m_modified' = FALSE
    /\ m_editVolume' = EmptyVolume
    /\ m_name' = ""

\* A reset that forgets line 388 and keeps the hull.
resetKeepsHull ==
    /\ m_pts' = <<>>
    /\ UNCHANGED m_hull
    /\ m_currentVolumeId' = 0
    /\ m_modified' = FALSE
    /\ m_editVolume' = EmptyVolume
    /\ m_name' = ""

\* ConvexVolumeToolState::reset, lines 385-393.
reset ==
    /\ m_pts' = <<>>
    /\ m_hull' = <<>>
    /\ m_currentVolumeId' = 0
    /\ m_modified' = FALSE
    /\ m_editVolume' = EmptyVolume
    /\ m_name' = ""

\* Lines 537-538: the hull's points, in hull order.
hullVerts == [i \in 1..Len(m_hull) |-> At(m_pts, m_hull[i])]

\* Line 544 with the descent added instead of subtracted.
shapeMinhRaised ==
    SetMin({hullVerts[i][2] : i \in 1..Len(m_hull)}) + m_boxDescent

\* Lines 540-545.
shapeMinh == SetMin({hullVerts[i][2] : i \in 1..Len(m_hull)}) - m_boxDescent

shapeMaxh == shapeMinh + m_boxHeight

\* Line 547: m_polyOffset > 0.01f.
offsetWanted == m_polyOffset * 100 > 1

\* Line 532 asking for two hull indices or more instead of more than two.
shapeAddedFromTwo(offset) ==
    Len(m_hull) >= 2 /\ (offsetWanted => Len(offset) > 0)

\* Lines 532-565: whether CreateShape reaches an AddConvexVolume call, given
\* what rcOffsetPoly hands back (noffset is the length of 'offset').
shapeAdded(offset) ==
    Len(m_hull) > 2 /\ (offsetWanted => Len(offset) > 0)

\* The vertices handed to AddConvexVolume, lines 557 and 563.
shapeVerts(offset) == IF offsetWanted THEN offset ELSE hullVerts

\* CreateShape, lines 527-571; 'op' names the handler that called it.
CreateShape(pf, op, offset) ==
    LET added == shapeAdded(offset)
        id    == nextVolumeId
        after == IF added
                 THEN AddConvexVolume(volumes, id, shapeVerts(offset), m_name,
                                      shapeMinh, shapeMaxh, m_areaType)
                 ELSE volumes
    IN  /\ added => nextVolumeId <= pf.maxId
        /\ volumes' = after
        /\ nextVolumeId' = IF added THEN nextVolumeId + 1 ELSE nextVolumeId
        /\ reset
        /\ Ran(op, IF added THEN id ELSE 0,
               IF Len(m_hull) > 2 /\ offsetWanted
               THEN (IF Len(offset) > 0 THEN "ok" ELSE "failed") ELSE "none",
               IF added THEN GetTilesIntersectingConvexVolume(after, id) ELSE {})

\* The outcomes of the rcOffsetPoly call of line 551, when it is made.
offsetOutcomes ==
    IF Len(m_hull) > 2 /\ offsetWanted THEN rcOffsetPoly(hullVerts, m_polyOffset)
    ELSE {<<>>}

\* Line 507 with a tolerance of 10.5 in place of 0.2.
closeToWide(p, q) == distSqr(p, q) * 4 < 441

\* Line 507: p lies within 0.2 of q (distSqr < rcSqr(0.2f), i.e. 25 d^2 < 1).
closeTo(p, q) == distSqr(p, q) * 25 < 1

\* Lines 479-491 without the break of line 487: the last volume that
\* contains p wins.
nearestIndexLast(p) ==
    LET hits == {i \in 1..Len(volumes) : volumeContains(volumes[i], p)}
    IN  IF hits = {} THEN -1 ELSE SetMax(hits) - 1

\* Lines 479-491: index of the first volume, in iteration order, that
\* contains p; -1 when none does.
nearestIndex(p) ==
    LET hits == {i \in 1..Len(volumes) : volumeContains(volumes[i], p)}
    IN  IF hits = {} THEN -1 ELSE SetMin(hits) - 1

\* Lines 513-520 with the hull renewed from three points on only.
addPointFromThree(p) ==
    LET pts  == Append(m_pts, p)
        wrap == convexhull(pts)
    IN  /\ m_pts' = pts
        /\ IF Len(pts) >= 3
           THEN m_hull' = wrap.out /\ hung' = ~wrap.halts
           ELSE m_hull' = <<>> /\ UNCHANGED hung

\* Lines 513-520: the point is appended and the hull renewed.  When
\* convexhull never returns, neither does the handler.
addPoint(p) ==
    LET pts  == Append(m_pts, p)
        wrap == convexhull(pts)
    IN  /\ m_pts' = pts
        /\ IF Len(pts) >= 2
           THEN m_hull' = wrap.out /\ hung' = ~wrap.halts
           ELSE m_hull' = <<>> /\ UNCHANGED hung

\* handleVolumeClick, lines 471-525, with the tile hand-over of
\* handleClick, lines 345-350.
handleVolumeClick(pf, p, shift, alt) ==
    IF shift
    THEN LET n == nearestIndex(p)
         IN  IF n # -1
             THEN LET id == At(volumes, n).id
                  IN  /\ volumes' = DeleteConvexVolumeById(volumes, id)
                      /\ Ran("ClickDelete", id, "none",
                             GetTilesIntersectingConvexVolume(volumes, id))
                      /\ UNCHANGED <<m_pts, m_hull, m_currentVolumeId, m_modified,
                                     m_editVolume, m_name, nextVolumeId, hung>>
             ELSE /\ Ran("ClickMiss", 0, "none", {})
                  /\ UNCHANGED <<m_pts, m_hull, m_currentVolumeId, m_modified,
                                 m_editVolume, m_name, volumes, nextVolumeId, hung>>
    ELSE IF Len(m_pts) > 0 /\ (alt \/ closeTo(p, At(m_pts, Len(m_pts) - 1)))
         THEN /\ \E offset \in offsetOutcomes : CreateShape(pf, "ClickCommit", offset)
              /\ UNCHANGED hung
         ELSE /\ Len(m_pts) < pf.maxPts
              /\ addPoint(p)
              /\ Ran("ClickAdd", 0, "none", {})
              /\ UNCHANGED <<m_currentVolumeId, m_modified, m_editVolume,
                             m_name, volumes, nextVolumeId>>

\* handleClick without the early return of line 340.
handleClickUnguarded(pf, p, shift, alt) ==
    /\ ~hung
    /\ UNCHANGED <<m_areaType, m_boxHeight, m_boxDescent, m_polyOffset>>
    /\ m_editing' = (m_currentVolumeId = 0 \/ m_editing)
    /\ handleVolumeClick(pf, p, shift, alt)

\* ConvexVolumeTool::handleClick, lines 334-351; 'alt' is the modifier state
\* read at line 504.
handleClick(pf, p, shift, alt) ==
    /\ ~hung
    /\ UNCHANGED <<m_areaType, m_boxHeight, m_boxDescent, m_polyOffset>>
    /\ IF m_currentVolumeId = 0 \/ m_editing
       THEN /\ m_editing' = TRUE
            /\ handleVolumeClick(pf, p, shift, alt)
       ELSE /\ Ran("ClickIgnored", 0, "none", {})
            /\ UNCHANGED <<m_pts, m_hull, m_currentVolumeId, m_modified, m_editVolume,
                           m_name, m_editing, volumes, nextVolumeId, hung>>

Click(pf) ==
    /\ \E p \in pf.pts, shift \in BOOLEAN, alt \in BOOLEAN : handleClick(pf, p, shift, alt)
    /\ UNCHANGED <<hullVars, hitVars>>

\* ConvexVolumeTool::reset, lines 90-93.
ToolReset ==
    /\ ~hung
    /\ m_editing' = FALSE
    /\ Ran("ToolReset", 0, "none", {})
    /\ UNCHANGED <<m_pts, m_hull, m_currentVolumeId, m_modified, m_editVolume,
                   m_name, m_areaType, m_boxHeight, m_boxDescent, m_polyOffset,
                   volumes, nextVolumeId, hung, hullVars, hitVars>>

----------------------------------------------------------------------------
(* ConvexVolumeTool::handleMenu, lines 133-332: one action per widget that *)
(* reports a press or an edit in a frame.                                  *)

\* The selection of a volume without line 187: create mode is not left.
SelectExistingKeepsMode ==
    /\ ~hung
    /\ \E i \in 1..Len(volumes) :
         /\ volumes[i].id # m_currentVolumeId
         /\ m_pts' = <<>>
         /\ m_hull' = <<>>
         /\ m_modified' = FALSE
         /\ m_name' = ""
         /\ m_editVolume' = volumes[i]
         /\ m_currentVolumeId' = volumes[i].id
         /\ Ran("SelectExisting", volumes[i].id, "none", {})
    /\ UNCHANGED <<m_areaType, m_boxHeight, m_boxDescent, m_polyOffset, m_editing,
                   volumes, nextVolumeId, hung, hullVars, hitVars>>

\* Lines 178-188: a press on a list entry that is not the selected one
\* (Selectable flips 'selected', so a press on the selected entry leaves it
\* FALSE and nothing runs).
SelectExisting ==
    /\ ~hung
    /\ \E i \in 1..Len(volumes) :
         /\ volumes[i].id # m_currentVolumeId
         /\ m_pts' = <<>>
         /\ m_hull' = <<>>
         /\ m_modified' = FALSE
         /\ m_name' = ""
         /\ m_editVolume' = volumes[i]
         /\ m_currentVolumeId' = volumes[i].id
         /\ m_editing' = FALSE
         /\ Ran("SelectExisting", volumes[i].id, "none", {})
    /\ UNCHANGED <<m_areaType, m_boxHeight, m_boxDescent, m_polyOffset,
                   volumes, nextVolumeId, hung, hullVars, hitVars>>

\* Lines 202-206.
CreateNew ==
    /\ ~hung
    /\ reset
    /\ m_editing' = TRUE
    /\ Ran("CreateNew", 0, "none", {})
    /\ UNCHANGED <<m_areaType, m_boxHeight, m_boxDescent, m_polyOffset,
                   volumes, nextVolumeId, hung, hullVars, hitVars>>

\* The Delete button with lines 215 and 216 exchanged: the tiles are asked
\* for once the volume is gone.
DeleteSelectedTilesAfter ==
    /\ ~hung
    /\ ~m_editing
    /\ m_currentVolumeId # 0
    /\ volumes' = DeleteConvexVolumeById(volumes, m_currentVolumeId)
    /\ m_currentVolumeId' = 0
    /\ Ran("DeleteSelected", m_currentVolumeId, "none",
           GetTilesIntersectingConvexVolume(volumes', m_currentVolumeId))
    /\ UNCHANGED <<m_pts, m_hull, m_modified, m_editVolume, m_name, m_areaType,
                   m_boxHeight, m_boxDescent, m_polyOffset, m_editing,
                   nextVolumeId, hung, hullVars, hitVars>>

\* The Delete button without line 222.
DeleteSelectedKeepsId ==
    /\ ~hung
    /\ ~m_editing
    /\ m_currentVolumeId # 0
    /\ volumes' = DeleteConvexVolumeById(volumes, m_currentVolumeId)
    /\ Ran("DeleteSelected", m_currentVolumeId, "none",
           GetTilesIntersectingConvexVolume(volumes, m_currentVolumeId))
    /\ UNCHANGED <<m_pts, m_hull, m_currentVolumeId, m_modified, m_editVolume,
                   m_name, m_areaType, m_boxHeight, m_boxDescent, m_polyOffset,
                   m_editing, nextVolumeId, hung, hullVars, hitVars>>

\* Lines 211-223.
DeleteSelected ==
    /\ ~hung
    /\ ~m_editing
    /\ m_currentVolumeId # 0
    /\ volumes' = DeleteConvexVolumeById(volumes, m_currentVolumeId)
    /\ m_currentVolumeId' = 0
    /\ Ran("DeleteSelected", m_currentVolumeId, "none",
           GetTilesIntersectingConvexVolume(volumes, m_currentVolumeId))
    /\ UNCHANGED <<m_pts, m_hull, m_modified, m_editVolume, m_name, m_areaType,
                   m_boxHeight, m_boxDescent, m_polyOffset, m_editing,
                   nextVolumeId, hung, hullVars, hitVars>>

\* Lines 229-238: the fields of the create panel.
SetCreateField(pf) ==
    /\ ~hung
    /\ m_editing
    /\ \/ \E v \in pf.names : m_name' = v
            /\ UNCHANGED <<m_areaType, m_boxHeight, m_boxDescent, m_polyOffset>>
       \/ \E v \in pf.areas : m_areaType' = v
            /\ UNCHANGED <<m_name, m_boxHeight, m_boxDescent, m_polyOffset>>
       \/ \E v \in pf.heights : m_boxHeight' = v
            /\ UNCHANGED <<m_name, m_areaType, m_boxDescent, m_polyOffset>>
       \/ \E v \in pf.descents : m_boxDescent' = v
            /\ UNCHANGED <<m_name, m_areaType, m_boxHeight, m_polyOffset>>
       \/ \E v \in pf.offsets : m_polyOffset' = v
            /\ UNCHANGED <<m_name, m_areaType, m_boxHeight, m_boxDescent>>
    /\ Ran("SetCreateField", 0, "none", {})
    /\ UNCHANGED <<m_pts, m_hull, m_currentVolumeId, m_modified, m_editVolume,
                   m_editing, volumes, nextVolumeId, hung, hullVars, hitVars>>

\* Lines 274-282: the Create Volume button.
CreateVolume(pf) ==
    /\ ~hung
    /\ m_editing
    /\ Len(m_hull) > 2
    /\ \E offset \in offsetOutcomes : CreateShape(pf, "CreateVolume", offset)
    /\ m_editing' = FALSE
    /\ UNCHANGED <<m_areaType, m_boxHeight, m_boxDescent, m_polyOffset,
                   hung, hullVars, hitVars>>

\* Lines 285-289.
Cancel ==
    /\ ~hung
    /\ m_editing
    /\ reset
    /\ m_editing' = FALSE
    /\ Ran("Cancel", 0, "none", {})
    /\ UNCHANGED <<m_areaType, m_boxHeight, m_boxDescent, m_polyOffset,
                   volumes, nextVolumeId, hung, hullVars, hitVars>>

\* Lines 292-308: the fields of the edit panel; an edit sets the dirty flag.
EditField(pf) ==
    /\ ~hung
    /\ ~m_editing
    /\ m_currentVolumeId # 0
    /\ \/ \E v \in pf.editNames : m_editVolume' = [m_editVolume EXCEPT !.name = v]
       \/ \E v \in pf.editAreas : m_editVolume' = [m_editVolume EXCEPT !.areaType = v]
       \/ \E v \in pf.editHeights : m_editVolume' = [m_editVolume EXCEPT !.hmin = v]
       \/ \E v \in pf.editHeights : m_editVolume' = [m_editVolume EXCEPT !.hmax = v]
    /\ m_modified' = TRUE
    /\ Ran("EditField", m_currentVolumeId, "none", {})
    /\ UNCHANGED <<m_pts, m_hull, m_currentVolumeId, m_name, m_areaType, m_boxHeight,
                   m_boxDescent, m_polyOffset, m_editing, volumes, nextVolumeId,
                   hung, hullVars, hitVars>>

\* Lines 314-318 without line 317: the name is not written back.
savedVolumeKeepsName(vol) ==
    [vol EXCEPT !.areaType = m_editVolume.areaType,
                !.hmin = m_editVolume.hmin,
                !.hmax = m_editVolume.hmax,
                !.verts = m_editVolume.verts]

\* Lines 312-318: the stored volume after the edit buffer is written back.
savedVolume(vol) ==
    [vol EXCEPT !.areaType = m_editVolume.areaType,
                !.hmin = m_editVolume.hmin,
                !.hmax = m_editVolume.hmax,
                !.name = m_editVolume.name,
                !.verts = m_editVolume.verts]

\* Lines 310-326: Save Changes.
SaveChanges ==
    /\ ~hung
    /\ ~m_editing
    /\ m_currentVolumeId # 0
    /\ m_modified
    /\ IF m_currentVolumeId \in VolumeIds(volumes)
       THEN LET after == [i \in 1..Len(volumes) |->
                            IF volumes[i].id = m_currentVolumeId
                            THEN savedVolume(volumes[i]) ELSE volumes[i]]
            IN  /\ volumes' = after
                /\ Ran("SaveChanges", m_currentVolumeId, "none",
                       GetTilesIntersectingConvexVolume(after, m_currentVolumeId))
       ELSE /\ volumes' = volumes
            /\ Ran("SaveChanges", 0, "none", {})
    /\ UNCHANGED <<m_pts, m_hull, m_currentVolumeId, m_modified, m_editVolume, m_name,
                   m_areaType, m_boxHeight, m_boxDescent, m_polyOffset, m_editing,
                   nextVolumeId, hung, hullVars, hitVars>>

----------------------------------------------------------------------------
(* The session: the tool as constructed, then any handler in any order.    *)

IdleHull == h_pts = <<>> /\ h_hull = 0 /\ h_out = <<>> /\ h_pc = "idle"

IdleHit == q_vol = EmptyVolume /\ q_p = <<0, 0, 0>> /\ q_hit = "idle"

\* The session left alone while one algorithm is followed on its own.
IdleSession ==
    /\ m_pts = <<>>
    /\ m_hull = <<>>
    /\ m_currentVolumeId = 0
    /\ m_modified = FALSE
    /\ m_editVolume = EmptyVolume
    /\ m_name = ""
    /\ m_areaType = 0
    /\ m_boxHeight = 5
    /\ m_boxDescent = 0
    /\ m_polyOffset = 0
    /\ m_editing = FALSE
    /\ volumes = <<>>
    /\ nextVolumeId = 1
    /\ rebuilt = {}
    /\ lastOp = [op |-> "Init", id |-> 0, offset |-> "none"]
    /\ hung = FALSE

\* A mesh with no volume yet.
NewMesh == [volumes |-> <<>>, nextVolumeId |-> 1]

\* A mesh saved with two overlapping volumes that this tool made earlier: the
\* triangle of the three corners, and the triangle through the lower point.
SavedMesh ==
    [volumes |-> <<[id |-> 1, name |-> "", areaType |-> 0, hmin |-> 0, hmax |-> 5,
                    verts |-> <<<<0, 0, 0>>, <<10, 0, 0>>, <<10, 0, 10>>>>],
                   [id |-> 2, name |-> "", areaType |-> 0, hmin |-> -2, hmax |-> 3,
                    verts |-> <<<<0, 0, 0>>, <<20, -2, 0>>, <<10, 0, 10>>>>]>>,
     nextVolumeId |-> 3]

\* The tool as constructed (m_editing false, the state as reset) against one
\* of 'meshes'; the sliders stand anywhere in the profile.
InitWith(pf, meshes) ==
    /\ m_pts = <<>>
    /\ m_hull = <<>>
    /\ m_currentVolumeId = 0
    /\ m_modified = FALSE
    /\ m_editVolume = EmptyVolume
    /\ m_name = ""
    /\ m_areaType = 0
    /\ m_boxHeight \in pf.heights
    /\ m_boxDescent \in pf.descents
    /\ m_polyOffset \in pf.offsets
    /\ m_editing = FALSE
    /\ \E mesh \in meshes : volumes = mesh.volumes /\ nextVolumeId = mesh.nextVolumeId
    /\ rebuilt = {}
    /\ lastOp = [op |-> "Init", id |-> 0, offset |-> "none"]
    /\ hung = FALSE
    /\ IdleHull
    /\ IdleHit

Init == InitWith(Small, {NewMesh, SavedMesh})

Next ==
    \/ Click(Small)
    \/ ToolReset
    \/ SelectExisting
    \/ CreateNew
    \/ DeleteSelected
    \/ SetCreateField(Small)
    \/ CreateVolume(Small)
    \/ Cancel
    \/ EditField(Small)
    \/ SaveChanges

Spec == Init /\ [][Next]_vars

\* The creation flow alone, on a new mesh.
InitCreate == InitWith(Square, {NewMesh})

NextCreate ==
    \/ Click(Square)
    \/ ToolReset
    \/ CreateNew
    \/ SetCreateField(Square)
    \/ CreateVolume(Square)
    \/ Cancel

SpecCreate == InitCreate /\ [][NextCreate]_vars

\* The mesh loses a volume by other hands than this tool's (the registry
\* belongs to the mesh, section 5 of the specification; section 7 asks the
\* tool to tolerate a volume that vanished).  The tool is not told.
ExternalDelete ==
    /\ ~hung
    /\ \E i \in 1..Len(volumes) :
         /\ volumes' = DeleteConvexVolumeById(volumes, volumes[i].id)
         /\ Ran("ExternalDelete", volumes[i].id, "none", {})
    /\ UNCHANGED <<m_pts, m_hull, m_currentVolumeId, m_modified, m_editVolume, m_name,
                   m_areaType, m_boxHeight, m_boxDescent, m_polyOffset, m_editing,
                   nextVolumeId, hung, hullVars, hitVars>>

\* The edit flow alone, on the saved mesh, which may lose volumes meanwhile.
InitEdit == InitWith(Edit, {SavedMesh})

NextEdit ==
    \/ SelectExisting
    \/ EditField(Edit)
    \/ SaveChanges
    \/ DeleteSelected
    \/ ExternalDelete

SpecEdit == InitEdit /\ [][NextEdit]_vars

----------------------------------------------------------------------------
(* convexhull on its own, one turn of the do-while of lines 37-45 at a     *)
(* time, on every buffer handleVolumeClick can have built from points of a *)
(* small grid: two points or more (line 517), no point equal to the one    *)
(* picked just before it (line 507 commits on such a click instead).       *)

\* The grid's coordinates run over 0..HullGridMax in x and in z.
HullGridMax == 2

\* Longest buffer handed to convexhull.
MaxHullPts == 4

HullGrid == {<<x, 0, z>> : x \in 0..HullGridMax, z \in 0..HullGridMax}

HullInputs ==
    {s \in SeqsOf(HullGrid, 2, MaxHullPts) : \A i \in 1..(Len(s) - 1) : s[i] # s[i + 1]}

\* Lines 30-36 have run: the start point is found and 'out' is cleared.
InitHull ==
    /\ IdleSession
    /\ IdleHit
    /\ h_pts \in HullInputs
    /\ h_hull = lowerLeftmost(h_pts)
    /\ h_out = <<>>
    /\ h_pc = "wrap"

\* Lines 39-45: one turn.  The model follows the loop for one turn more than
\* there are points; by then it has left or is caught in a cycle.
wrapStep ==
    /\ h_pc = "wrap"
    /\ Len(h_out) <= Len(h_pts)
    /\ h_out' = Append(h_out, h_hull)
    /\ h_hull' = nextEndpt(h_pts, h_hull)
    /\ h_pc' = IF h_hull' = h_out'[1] THEN "done" ELSE "wrap"
    /\ UNCHANGED <<h_pts, sessVars, hitVars>>

NextHull == wrapStep

SpecHull == InitHull /\ [][NextHull]_vars

----------------------------------------------------------------------------
(* The hit test of handleVolumeClick, line 484, on its own: an             *)
(* axis-aligned square with the height range 0..10, its four corners       *)
(* listed from any corner in either direction, and a query point.          *)

\* Query points have x and z in -1..HitGridMax.
HitGridMax == 6

\* Squares have their lowest corner at 0..HitCornerMax in x and in z.
HitCornerMax == 1

HitSides == {2, 4}

HitHeights == {-1, 0, 5, 10, 11, 15}

squareCorners(x, z, s) ==
    <<<<x, 0, z>>, <<x + s, 0, z>>, <<x + s, 0, z + s>>, <<x, 0, z + s>>>>

\* The four corners c, listed from corner k onward, forward or backward.
cornerOrder(c, k, forward) ==
    [i \in 1..4 |-> c[(((IF forward THEN k + i - 1 ELSE k - i + 1) + 3) % 4) + 1]]

HitSquares ==
    {[id |-> 1, name |-> "", areaType |-> 0, hmin |-> 0, hmax |-> 10,
      verts |-> cornerOrder(squareCorners(x, z, s), k, f)] :
        x \in 0..HitCornerMax, z \in 0..HitCornerMax, s \in HitSides,
        k \in 1..4, f \in BOOLEAN}

InitHit ==
    /\ IdleSession
    /\ IdleHull
    /\ q_vol \in HitSquares
    /\ q_p \in {<<x, y, z>> : x \in -1..HitGridMax, y \in HitHeights, z \in -1..HitGridMax}
    /\ q_hit = "untested"

hitTest ==
    /\ q_hit = "untested"
    /\ q_hit' = IF volumeContains(q_vol, q_p) THEN "inside" ELSE "outside"
    /\ UNCHANGED <<q_vol, q_p, sessVars, hullVars>>

NextHit == hitTest

SpecHit == InitHit /\ [][NextHit]_vars

----------------------------------------------------------------------------
(* Properties of convexhull and of the hit test.                           *)

\* C1: convexhull terminates on every buffer it can be called with: the wrap
\* returns to the start index after finitely many turns.  The next vertex is
\* a function of the current one alone, so a wrap that comes back to a vertex
\* it pushed after the start vertex goes round that cycle for ever; the
\* property says no run gets there.
C1_WrapReturns ==
    ~(h_pc = "wrap" /\ \E i \in 2..Len(h_out) : h_out[i] = h_hull)

\* Twice the signed area of the triangle a, b, c in the x/z plane.
cross(a, b, c) ==
    (b[1] - a[1]) * (c[3] - a[3]) - (b[3] - a[3]) * (c[1] - a[1])

hullPoly == [i \in 1..Len(h_out) |-> At(h_pts, h_out[i])]

following(i) == (i % Len(h_out)) + 1

\* Every input point is on the inner side of, or on, every edge of the hull.
Enclosed ==
    \E s \in {-1, 1} :
        \A i \in 1..Len(h_out), k \in 1..Len(h_pts) :
            s * cross(hullPoly[i], hullPoly[following(i)], h_pts[k]) >= 0

\* Consecutive hull vertices never turn against the polygon's direction.
ConvexPosition ==
    \E s \in {-1, 1} :
        \A i \in 1..Len(h_out) :
            s * cross(hullPoly[i], hullPoly[following(i)], hullPoly[following(following(i))]) >= 0

NoIndexTwice ==
    \A i, j \in 1..Len(h_out) : i # j => h_out[i] # h_out[j]

AllOnOneLine ==
    \A k \in 1..Len(h_pts) : cross(h_pts[1], h_pts[2], h_pts[k]) = 0

\* C4: for three points or more, the hull convexhull returns encloses every
\* input point, is in convex position and names no index twice (so it is no
\* longer than the input).  Stated for the inputs that do not all lie on one
\* line; the specification leaves the order of the others open.
C4_HullCorrect ==
    (h_pc = "done" /\ Len(h_pts) >= 3 /\ ~AllOnOneLine)
        => (Enclosed /\ ConvexPosition /\ NoIndexTwice /\ Len(h_out) <= Len(h_pts))

\* The horizontal extent of the tested volume, and its middle.
hitXs == {q_vol.verts[i][1] : i \in 1..Len(q_vol.verts)}

hitZs == {q_vol.verts[i][3] : i \in 1..Len(q_vol.verts)}

AtCentroid ==
    /\ 2 * q_p[1] = SetMin(hitXs) + SetMax(hitXs)
    /\ 2 * q_p[3] = SetMin(hitZs) + SetMax(hitZs)

OutsideExtent ==
    \/ q_p[1] < SetMin(hitXs) \/ q_p[1] > SetMax(hitXs)
    \/ q_p[3] < SetMin(hitZs) \/ q_p[3] > SetMax(hitZs)

WithinExtent ==
    /\ q_p[1] > SetMin(hitXs) /\ q_p[1] < SetMax(hitXs)
    /\ q_p[3] > SetMin(hitZs) /\ q_p[3] < SetMax(hitZs)

\* C10: for an axis-aligned square with hmin = 0 and hmax = 10 the hit test
\* finds the centroid at height 5 inside, every point outside the square's
\* horizontal extent outside whatever its height, and a point horizontally
\* inside at height 15 outside.
C10_HitTest ==
    q_hit # "untested" =>
        /\ (AtCentroid /\ q_p[2] = 5) => q_hit = "inside"
        /\ OutsideExtent => q_hit = "outside"
        /\ (WithinExtent /\ q_p[2] = 15) => q_hit = "outside"

\* C10's cases have been tested: the centroid at height 5 was found inside.
C10_Witness == q_hit = "inside" /\ AtCentroid /\ q_p[2] = 5

----------------------------------------------------------------------------
(* The session's properties.                                               *)

\* C2: a commit with more than two hull indices and an offset above the
\* epsilon, in which rcOffsetPoly reports failure, still adds a volume to the
\* registry, and its vertices are the raw hull's: the points indexed by the
\* hull, in hull order.
C2_OffsetFallback ==
    [][lastOp'.offset = "failed"
         => /\ Len(volumes') = Len(volumes) + 1
            /\ volumes'[Len(volumes')].verts =
                 [i \in 1..Len(m_hull) |-> At(m_pts, m_hull[i])]]_vars

\* C3: after any sequence of session operations every stored volume has
\* hmin <= hmax.
C3_HeightsOrdered ==
    \A i \in 1..Len(volumes) : volumes[i].hmin <= volumes[i].hmax

\* C5 as stated: whenever the point buffer holds 0, 1 or 2 points the
\* session hull is empty.
C5_ShortBufferNoHull == Len(m_pts) <= 2 => m_hull = <<>>

\* C5: with 0 or 1 picked points the session hull is empty; with 2 picked
\* points the hull holds exactly the two indices 0 and 1, which is still too
\* short to commit (CreateShape asks for more than two).
C5_ShortBufferHull ==
    /\ Len(m_pts) <= 1 => m_hull = <<>>
    /\ Len(m_pts) = 2 => (Len(m_hull) = 2 /\ Range(m_hull) = {0, 1})

\* C5's case: the second point has just been picked.
C5_Witness ==
    lastOp.op = "ClickAdd" /\ Len(m_pts) = 2 /\ Len(m_hull) = 2 /\ ~hung

\* The picks of the square scenario, in order.
squarePicks == <<<<0, 0, 0>>, <<10, 0, 0>>, <<10, 0, 10>>, <<0, 0, 10>>>>

C7_DeleteRemoves ==
    lastOp.op \in {"DeleteSelected", "ClickDelete"}
        => lastOp.id \notin VolumeIds(volumes) /\ m_currentVolumeId = 0

\* C7's case: both saved volumes are gone, the second one by a shift-click.
C7_Witness ==
    lastOp.op = "ClickDelete" /\ lastOp.id = 2 /\ volumes = <<>> /\ rebuilt # {}

\* C8: a non-zero currentVolumeId never coexists with picked points or a
\* hull; SelectExisting leaves points and hull empty, CreateNew leaves the edit
\* buffer and currentVolumeId cleared, and a click made while a volume is
\* selected adds no point.
C8_SelectionExcludesPoints ==
    /\ m_currentVolumeId # 0 => (m_pts = <<>> /\ m_hull = <<>>)
    /\ lastOp.op = "SelectExisting" => (m_pts = <<>> /\ m_hull = <<>>)
    /\ lastOp.op = "CreateNew" => (m_editVolume = EmptyVolume /\ m_currentVolumeId = 0)
    /\ lastOp.op = "ClickIgnored" => (m_currentVolumeId # 0 /\ m_pts = <<>>)

\* C8's case: a click has just been made while a volume is selected.
C8_Witness ==
    lastOp.op = "ClickIgnored" /\ m_currentVolumeId # 0 /\ m_pts = <<>>

\* C9: Cancel leaves points and hull empty, leaves the registry exactly as
\* it was, and requests no tile rebuild.
C9_CancelDiscards ==
    [][lastOp'.op = "Cancel"
         => /\ m_pts' = <<>> /\ m_hull' = <<>>
            /\ volumes' = volumes
            /\ rebuilt' = {}]_vars

\* C9's case: Cancel has just run against a registry that holds volumes.
C9_Witness ==
    /\ lastOp.op = "Cancel"
    /\ m_pts = <<>> /\ m_hull = <<>> /\ rebuilt = {}
    /\ Len(volumes) = 2 /\ ~m_editing

\* C11: every element of the hull is a valid index into the picked points,
\* in every reachable state (so after a pick, a commit, Cancel, Create New and
\* the selection of a volume).
C11_HullIndicesValid ==
    \A i \in 1..Len(m_hull) : m_hull[i] \in 0..(Len(m_pts) - 1)

\* C11's case: a third point has been picked and all three are on the hull.
C11_Witness ==
    lastOp.op = "ClickAdd" /\ Len(m_pts) = 3 /\ Len(m_hull) = 3 /\ ~hung

\* C12: the set of ids in the registry changes only by a commit with more
\* than two hull indices, which adds exactly one fresh non-zero id, and by an
\* explicit delete (the Delete button or a shift-click that found a volume),
\* which removes exactly one id; Create New, a pick that does not commit,
\* Cancel, the selection of a volume, field edits and Save Changes leave the
\* set as it was.
C12_IdsChangeByCommitOrDelete ==
    [][LET old == VolumeIds(volumes)
           new == VolumeIds(volumes')
       IN  /\ old # new =>
                \/ /\ lastOp'.op \in {"ClickCommit", "CreateVolume"}
                   /\ Len(m_hull) > 2
                   /\ \E id \in new \ old : id # 0 /\ new = old \cup {id}
                \/ /\ lastOp'.op \in {"DeleteSelected", "ClickDelete"}
                   /\ \E id \in old : new = old \ {id}
           /\ lastOp'.op \in {"DeleteSelected", "ClickDelete"}
                => (lastOp'.id \in old /\ new = old \ {lastOp'.id})
           /\ lastOp'.op \in {"CreateNew", "ClickAdd", "ClickMiss", "ClickIgnored",
                              "Cancel", "SelectExisting", "SetCreateField",
                              "EditField", "SaveChanges", "ToolReset"}
                => new = old]_vars

\* C12's case: the volume a commit added under id 1 has been removed again
\* by a shift-click.
C12_Witness ==
    lastOp.op = "ClickDelete" /\ lastOp.id = 1 /\ nextVolumeId = 2 /\ volumes = <<>>

\* C13: a click with shift held runs delete mode in every session state
\* (Idle, Collecting and Selected): whenever some stored volume contains the
\* clicked point, horizontally and in height, that click removes one volume
\* from the registry.
C13_ShiftClickDeletes ==
    [][\A p \in Small.pts, alt \in BOOLEAN :
         (/\ handleClick(Small, p, TRUE, alt)
          /\ \E i \in 1..Len(volumes) : volumeContains(volumes[i], p))
            => Len(volumes') = Len(volumes) - 1]_vars

\* C14: a click with shift held, whether it finds a volume or not, leaves
\* the session in the state it was in: points, hull, currentVolumeId, the
\* edit buffer with its dirty flag and the create-mode flag are unchanged, so
\* a shift-click made in Idle leaves the session Idle.
C14_ShiftClickKeepsSession ==
    [][\A p \in Small.pts, alt \in BOOLEAN :
         handleClick(Small, p, TRUE, alt)
            => UNCHANGED <<m_pts, m_hull, m_currentVolumeId, m_editVolume,
                           m_modified, m_editing>>]_vars

\* The registry without its k-th volume.
without(vs, k) == SubSeq(vs, 1, k - 1) \o SubSeq(vs, k + 1, Len(vs))

\* C15: a shift-click that reaches the hit test deletes exactly one volume
\* when one or several contain the clicked point, the first containing one in
\* the registry's iteration order, and leaves every other volume as it was;
\* when none contains the point the registry is unchanged and no rebuild is
\* requested.  (Delete mode does not read the alt modifier, line 504 being in
\* the other branch, so the shift-click steps are those with alt released.)
C15_FirstContainingDeleted ==
    [][((m_currentVolumeId = 0 \/ m_editing)
          /\ lastOp'.op \in {"ClickDelete", "ClickMiss"})
        => \A p \in Small.pts :
             handleClick(Small, p, TRUE, FALSE)
               => LET hits == {i \in 1..Len(volumes) : volumeContains(volumes[i], p)}
                  IN  IF hits = {}
                      THEN volumes' = volumes /\ rebuilt' = {}
                      ELSE volumes' = without(volumes, SetMin(hits))]_vars

\* C15's case: of the two saved volumes, which both contain one of the
\* click points, a shift-click has removed the first and left the second.
C15_Witness ==
    /\ lastOp.op = "ClickDelete" /\ lastOp.id = 1
    /\ volumes = <<SavedMesh.volumes[2]>>
    /\ \E p \in Small.pts :
         volumeContains(SavedMesh.volumes[1], p) /\ volumeContains(volumes[1], p)

\* C16: a commit attempted with two hull indices or fewer (a closing click
\* or an alt-click after one or two picks) adds no volume, requests no tile
\* rebuild, and still resets the session to Idle: points and hull empty,
\* currentVolumeId = 0, create mode left.
C16_ShortCommitResets ==
    [][(lastOp'.op = "ClickCommit" /\ Len(m_hull) <= 2)
         => /\ volumes' = volumes
            /\ rebuilt' = {}
            /\ m_pts' = <<>> /\ m_hull' = <<>>
            /\ m_currentVolumeId' = 0
            /\ ~m_editing']_vars

\* The last picked point.
lastPick == m_pts[Len(m_pts)]

\* p lies within the tolerance, 0.2, of the last picked point.
nearLastPick(p) ==
    25 * ((p[1] - lastPick[1]) * (p[1] - lastPick[1])
            + (p[2] - lastPick[2]) * (p[2] - lastPick[2])
            + (p[3] - lastPick[3]) * (p[3] - lastPick[3])) < 1

\* C17: a click without shift that reaches the session is a commit exactly
\* when points is non-empty and (alt is held or p is within the tolerance of
\* the last picked point), and then p is not appended.  Otherwise, so for any
\* click while points is empty even with alt held, p becomes the last element
\* of points, the earlier points keep their order, and the hull is renewed
\* from the whole buffer (cleared while it holds one point only).
C17_CommitOrAppend ==
    [][((m_currentVolumeId = 0 \/ m_editing)
          /\ lastOp'.op \in {"ClickCommit", "ClickAdd"})
        => \A p \in Small.pts, alt \in BOOLEAN :
             handleClick(Small, p, FALSE, alt)
               => IF m_pts # <<>> /\ (alt \/ nearLastPick(p))
                  THEN /\ lastOp'.op = "ClickCommit"
                       /\ m_pts' = <<>>
                  ELSE /\ lastOp'.op = "ClickAdd"
                       /\ m_pts' = Append(m_pts, p)
                       /\ Len(m_pts') = 1 => m_hull' = <<>>
                       /\ (Len(m_pts') >= 2 /\ ~hung')
                            => m_hull' = convexhull(m_pts').out]_vars

\* C17's case: three points were appended and a closing click or an
\* alt-click then committed them as volume 1.
C17_Witness ==
    /\ lastOp.op = "ClickCommit" /\ lastOp.id = 1
    /\ Len(volumes) = 1 /\ Len(volumes[1].verts) = 3
    /\ m_pts = <<>>

\* C18: Save Changes runs only while a volume is selected and the dirty
\* flag is set; it overwrites the stored volume's name, areaType, hmin and
\* hmax with the edit buffer's and leaves its id, its vertex sequence and
\* every other volume as they were; when the selected id is no longer in the
\* registry it changes nothing and requests no rebuild.
C18_SaveEdits ==
    [][lastOp'.op = "SaveChanges"
         => /\ m_currentVolumeId # 0 /\ m_modified /\ ~m_editing
            /\ Len(volumes') = Len(volumes)
            /\ \A i \in 1..Len(volumes) :
                 IF volumes[i].id = m_currentVolumeId
                 THEN volumes'[i] = [id       |-> volumes[i].id,
                                     verts    |-> volumes[i].verts,
                                     name     |-> m_editVolume.name,
                                     areaType |-> m_editVolume.areaType,
                                     hmin     |-> m_editVolume.hmin,
                                     hmax     |-> m_editVolume.hmax]
                 ELSE volumes'[i] = volumes[i]
            /\ m_currentVolumeId \notin VolumeIds(volumes)
                 => (volumes' = volumes /\ rebuilt' = {})]_vars

\* C18's case: volume 1 has been renamed, given another area type and a new
\* top, and saved; volume 2 is as it was.
C18_Witness ==
    /\ lastOp.op = "SaveChanges" /\ lastOp.id = 1
    /\ volumes = <<[SavedMesh.volumes[1] EXCEPT !.name = "pit", !.areaType = 1,
                                                !.hmax = 6],
                   SavedMesh.volumes[2]>>

\* C19: in both delete flows the tiles are resolved while the volume is
\* still in the registry, before it is deleted, and the set handed to
\* RebuildTiles is exactly that pre-deletion set; in the commit and save flows
\* the tiles are resolved after the registry has been changed.
C19_TilesResolvedInOrder ==
    [][/\ lastOp'.op \in {"DeleteSelected", "ClickDelete"}
            => /\ lastOp'.id \in VolumeIds(volumes)
               /\ lastOp'.id \notin VolumeIds(volumes')
               /\ rebuilt' = GetTilesIntersectingConvexVolume(volumes, lastOp'.id)
               /\ rebuilt' # {}
       /\ (lastOp'.op \in {"ClickCommit", "CreateVolume", "SaveChanges"}
             /\ lastOp'.id # 0)
            => /\ lastOp'.id \in VolumeIds(volumes')
               /\ rebuilt' = GetTilesIntersectingConvexVolume(volumes', lastOp'.id)
               /\ rebuilt' # {}]_vars

\* C19's case: the Delete button has removed the selected volume and its
\* tiles were handed over for rebuilding.
C19_Witness ==
    /\ lastOp.op = "DeleteSelected"
    /\ lastOp.id \notin VolumeIds(volumes)
    /\ rebuilt # {}

\* C20: no dangling selection.  With the registry changed through this
\* tool only, a non-zero currentVolumeId is always the id of a stored volume;
\* a shift-click cannot remove the selected volume from under the selection,
\* because create mode implies currentVolumeId = 0.
C20_NoDanglingSelection ==
    /\ m_currentVolumeId # 0 => m_currentVolumeId \in VolumeIds(volumes)
    /\ m_editing => m_currentVolumeId = 0

\* C20's case: volume 1 has been removed by a shift-click and volume 2 is
\* selected afterwards.
C20_Witness ==
    /\ m_currentVolumeId = 2 /\ ~m_editing
    /\ VolumeIds(volumes) = {2}
    /\ lastOp.op = "SelectExisting"

====
